---- MODULE Spec2Model ----
(***************************************************************************)
(* Model of optschedule's Schedule class (src/optschedule/schedule.py;     *)
(* src/optschedule/schedules.py is a copy of its first six methods).       *)
(*                                                                         *)
(* Numbers.  A float is modelled as an extended rational <<p, q>> in       *)
(* lowest terms with q >= 0: q > 0 is the real number p/q, <<1, 0>> and    *)
(* <<-1, 0>> are +inf and -inf, <<0, 0>> is NaN.  Rounding is not          *)
(* modelled.  An array element is a record re + co * fn(x, y) so that the  *)
(* two transcendental results the code produces (a fractional power, a     *)
(* cosine) are kept exactly as uninterpreted atoms.                        *)
(*                                                                         *)
(* Objects.  heap is the sequence of ndarray objects allocated so far; an  *)
(* object's identity is its index.  calls is the history of method calls   *)
(* made on the one Schedule instance.                                      *)
(***************************************************************************)
EXTENDS Integers, Sequences, FiniteSets

VARIABLES n_steps, steps, heap, calls

vars == <<n_steps, steps, heap, calls>>

\* Largest n_steps the instance is constructed with.
MaxNSteps == 5
\* Largest number of method calls made on the instance.
MaxCalls == 3

-----------------------------------------------------------------------------
(* Extended rational arithmetic (IEEE-754 special values, no rounding).    *)

Abs(a) == IF a < 0 THEN -a ELSE a

Sgn(a) == IF a < 0 THEN -1 ELSE IF a = 0 THEN 0 ELSE 1

RECURSIVE GCD(_, _)
GCD(a, b) == IF b = 0 THEN a ELSE GCD(b, a % b)

Norm(p, q) ==
    IF q = 0 THEN <<Sgn(p), 0>>
    ELSE LET g == GCD(Abs(p), Abs(q))
         IN  <<(Sgn(q) * p) \div g, Abs(q) \div g>>

R(k) == <<k, 1>>
Zero == R(0)
One == R(1)
Half == <<1, 2>>
NaN == <<0, 0>>

IsNaN(a) == a = NaN
IsFinite(a) == a[2] # 0

RNeg(a) == <<-a[1], a[2]>>

RAdd(a, b) ==
    IF a[2] = 0 /\ b[2] = 0 THEN (IF a = b THEN a ELSE NaN)
    ELSE Norm(a[1] * b[2] + b[1] * a[2], a[2] * b[2])

RSub(a, b) == RAdd(a, RNeg(b))

RMul(a, b) == Norm(a[1] * b[1], a[2] * b[2])

\* 1/a: 1/0 is inf, 1/inf is 0, 1/NaN is NaN
RRecip(a) == Norm(a[2], a[1])

\* a/b as numpy divides floats: 0/0 is NaN, x/0 is +-inf
RDiv(a, b) == RMul(a, RRecip(b))

RLe(a, b) == ~IsNaN(a) /\ ~IsNaN(b) /\ a[1] * b[2] <= b[1] * a[2]

RLt(a, b) == RLe(a, b) /\ a # b

\* np.maximum / np.minimum: NaN propagates
RMax(a, b) == IF IsNaN(a) \/ IsNaN(b) THEN NaN ELSE IF RLe(a, b) THEN b ELSE a

RMin(a, b) == IF IsNaN(a) \/ IsNaN(b) THEN NaN ELSE IF RLe(a, b) THEN a ELSE b

RFloor(a) == IF IsFinite(a) THEN R(a[1] \div a[2]) ELSE a

RCeil(a) == RNeg(RFloor(RNeg(a)))

IsInt(a) == a[2] = 1

RECURSIVE RPowNat(_, _)
RPowNat(a, k) == IF k = 0 THEN One ELSE RMul(a, RPowNat(a, k - 1))

\* a ** k for an integer k (x ** 0 is 1 for every x, 0 ** 0 included)
RPowInt(a, k) == IF k >= 0 THEN RPowNat(a, k) ELSE RRecip(RPowNat(a, -k))

-----------------------------------------------------------------------------
(* Array elements: re + co * fn(x, y), fn one of "none", "pow" (x ** y)    *)
(* and "cos" (cos(pi * x)).                                                *)

V(r) == [re |-> r, co |-> Zero, fn |-> "none", x |-> Zero, y |-> Zero]

Atom(f, a, b) == [re |-> Zero, co |-> One, fn |-> f, x |-> a, y |-> b]

IsRat(v) == v.fn = "none"

\* s * v for a scalar s (the methods' scalars are finite; NaN stands for the
\* product of an infinite scalar and an atom, whose sign is not known)
VScale(s, v) ==
    IF IsRat(v) THEN V(RMul(s, v.re))
    ELSE IF ~IsFinite(s) THEN V(NaN)
    ELSE IF RMul(s, v.co) = Zero THEN V(RMul(s, v.re))
    ELSE [v EXCEPT !.re = RMul(s, v.re), !.co = RMul(s, v.co)]

\* s + v for a scalar s
VShift(s, v) ==
    IF IsRat(v) THEN V(RAdd(s, v.re))
    ELSE IF ~IsFinite(s) THEN V(s)
    ELSE [v EXCEPT !.re = RAdd(s, v.re)]

\* np.power(b, e) for floats b, e (the methods produce no infinite base or
\* exponent with a fractional e; NaN stands for those results)
VPow(b, e) ==
    IF IsNaN(b) \/ IsNaN(e) THEN V(IF b = One \/ e = Zero THEN One ELSE NaN)
    ELSE IF IsInt(e) THEN V(RPowInt(b, e[1]))
    ELSE IF ~IsFinite(b) \/ ~IsFinite(e) THEN V(NaN)
    ELSE IF b = One THEN V(One)
    ELSE IF b = Zero THEN V(IF RLt(Zero, e) THEN Zero ELSE <<1, 0>>)
    ELSE IF RLt(b, Zero) THEN V(NaN)
    ELSE Atom("pow", b, e)

\* np.cos(np.pi * t) for a float t
VCos(t) ==
    IF ~IsFinite(t) THEN V(NaN)
    ELSE IF t = Zero THEN V(One)
    ELSE IF t = One THEN V(R(-1))
    ELSE Atom("cos", t, Zero)

-----------------------------------------------------------------------------
(* numpy helpers on arrays (sequences indexed from 1; Python index i is    *)
(* element i + 1).                                                         *)

\* linspace as np.linspace(start, stop, num, endpoint=False) would compute it
linspace_open(start, stop, num) ==
    [k \in 1..num |-> V(RAdd(RMul(R(k - 1), RDiv(R(stop - start), R(num))),
                             R(start)))]

\* np.linspace(start, stop, num) with endpoint=True, for integers
linspace(start, stop, num) ==
    LET div == num - 1
        delta == R(stop - start)
        step == RDiv(delta, R(div))
        y(i) == IF div > 0 THEN RAdd(RMul(R(i), step), R(start))
                ELSE RAdd(RMul(R(i), delta), R(start))
    IN  [k \in 1..num |->
            IF num > 1 /\ k = num THEN V(R(stop)) ELSE V(y(k - 1))]

\* np.full(len, value) / np.zeros(len)
np_full(len, value) == [k \in 1..len |-> V(value)]

\* np_zeros one element short, as np.zeros(len - 1)
np_zeros_short(len) == np_full(len - 1, Zero)

np_zeros(len) == np_full(len, Zero)

\* a new ndarray object holding arr: the heap after the allocation and the
\* reference to the new object
Alloc(h, arr) == [heap |-> Append(h, arr), ref |-> Len(h) + 1, outcome |-> "ok"]

\* an exception leaves the heap as it is and returns no object
Raise(h, exc) == [heap |-> h, ref |-> 0, outcome |-> exc]

-----------------------------------------------------------------------------
(* Schedule.__init__                                                       *)

Init ==
    /\ n_steps \in 1..MaxNSteps
    /\ steps = 1
    /\ heap = <<linspace(0, n_steps, n_steps)>>
    /\ calls = <<>>

\* self.steps / self.n_steps as the methods read them
self_steps(h) == [k \in 1..Len(h[steps]) |-> h[steps][k].re]

\* A method call: r is what the method did (heap, returned reference or
\* exception)
Call(lim, method, args, r) ==
    /\ Len(calls) < lim
    /\ heap' = r.heap
    /\ calls' = Append(calls, [method |-> method, args |-> args,
                               outcome |-> r.outcome, ref |-> r.ref])
    /\ UNCHANGED <<n_steps, steps>>

-----------------------------------------------------------------------------
(* Schedule.exponential_decay                                              *)

\* exponential_decay dividing self.steps by n_steps in place
\* (np.divide(self.steps, self.n_steps, out=self.steps)) before using it
exponential_decay_inplace(h, initial_value, decay_rate, staircase) ==
    LET n == R(n_steps)
        d == [k \in 1..Len(h[steps]) |-> RDiv(h[steps][k].re, n)]
        h2 == [h EXCEPT ![steps] = [k \in 1..Len(d) |-> V(d[k])]]
    IN  Alloc(h2, [k \in 1..Len(d) |->
                VScale(initial_value,
                       VPow(decay_rate,
                            IF staircase THEN RFloor(d[k]) ELSE d[k]))])

exponential_decay(h, initial_value, decay_rate, staircase) ==
    LET s == self_steps(h)
        n == R(n_steps)
    IN  IF staircase
        THEN Alloc(h, [k \in 1..Len(s) |->
                 VScale(initial_value,
                        VPow(decay_rate, RFloor(RDiv(s[k], n))))])
        ELSE Alloc(h, [k \in 1..Len(s) |->
                 VScale(initial_value, VPow(decay_rate, RDiv(s[k], n)))])

ExponentialDecay(lim, Args) ==
    \E a \in Args :
        Call(lim, "exponential_decay", a,
             exponential_decay(heap, a[1], a[2], a[3]))

(* Schedule.cosine_decay                                                   *)

cosine_decay(h, initial_value, alpha) ==
    LET s == self_steps(h)
        n == R(n_steps)
        st(k) == RMin(s[k], n)
        cosine(k) == VScale(Half, VShift(One, VCos(RDiv(st(k), n))))
        decayed(k) == VShift(alpha, VScale(RSub(One, alpha), cosine(k)))
    IN  Alloc(h, [k \in 1..Len(s) |-> VScale(initial_value, decayed(k))])

CosineDecay(lim, Args) ==
    \E a \in Args :
        Call(lim, "cosine_decay", a, cosine_decay(heap, a[1], a[2]))

(* Schedule.inverse_time_decay                                             *)

inverse_time_decay(h, initial_value, decay_rate, staircase) ==
    LET s == self_steps(h)
        n == R(n_steps)
    IN  IF staircase
        THEN Alloc(h, [k \in 1..Len(s) |->
                 V(RDiv(initial_value,
                        RAdd(One, RMul(decay_rate, RFloor(RDiv(s[k], n))))))])
        ELSE Alloc(h, [k \in 1..Len(s) |->
                 V(RDiv(initial_value,
                        RAdd(One, RMul(decay_rate, RDiv(s[k], n)))))])

InverseTimeDecay(lim, Args) ==
    \E a \in Args :
        Call(lim, "inverse_time_decay", a,
             inverse_time_decay(heap, a[1], a[2], a[3]))

(* Schedule.polynomial_decay                                               *)

\* the per-element horizon of the cycle branch (the local n_steps array)
cycle_n_steps(x) == RMul(R(n_steps), RCeil(RDiv(x, R(n_steps))))

polynomial_decay(h, initial_value, end_value, power, cycle) ==
    LET s == self_steps(h)
        n == R(n_steps)
        diff == RSub(initial_value, end_value)
    IN  IF cycle
        THEN Alloc(h, [k \in 1..Len(s) |->
                 VShift(end_value,
                        VScale(diff,
                               VPow(RSub(One, RDiv(s[k], cycle_n_steps(s[k]))),
                                    power)))])
        ELSE Alloc(h, [k \in 1..Len(s) |->
                 VShift(end_value,
                        VScale(diff,
                               VPow(RSub(One, RDiv(RMin(s[k], n), n)),
                                    power)))])

PolynomialDecay(lim, Args) ==
    \E a \in Args :
        Call(lim, "polynomial_decay", a,
             polynomial_decay(heap, a[1], a[2], a[3], a[4]))

(* Schedule.piecewise_constant_decay                                       *)

\* np.append(np.append(0, boundaries), n_steps): the integers [0] +
\* boundaries + [n_steps]; np.ravel of an empty list is a float64 array, so
\* the result holds floats when boundaries is empty and integers otherwise
np_append_bounds(boundaries) == <<0>> \o boundaries \o <<n_steps>>

bounds_dtype(boundaries) == IF boundaries = <<>> THEN "float64" ELSE "int64"

\* a Python slice bound clipped to a sequence of length len
slice_index(i, len) ==
    LET j == IF i < 0 THEN i + len ELSE i
    IN  IF j < 0 THEN 0 ELSE IF j > len THEN len ELSE j

\* the loop of piecewise_constant_decay from iteration value on; seq is the
\* sequence so far.  sequence[b[value]:b[value+1]] = np.full(b[value+1] -
\* b[value], values[value]): np.full rejects a float or negative length, the
\* assignment a length that does not broadcast to the slice.
RECURSIVE piecewise_loop(_, _, _, _, _)
piecewise_loop(seq, b, dtype, values, value) ==
    IF value >= Len(values) THEN [exc |-> "", seq |-> seq]
    ELSE LET lo == b[value + 1]
             hi == b[value + 2]
             m == hi - lo
             start == slice_index(lo, Len(seq))
             stop == slice_index(hi, Len(seq))
             len == IF stop > start THEN stop - start ELSE 0
         IN  IF dtype # "int64" THEN [exc |-> "TypeError", seq |-> seq]
             ELSE IF m < 0 THEN [exc |-> "ValueError", seq |-> seq]
             ELSE IF m # len /\ m # 1 THEN [exc |-> "ValueError", seq |-> seq]
             ELSE piecewise_loop(
                      [k \in 1..Len(seq) |->
                          IF start < k /\ k <= start + len
                          THEN V(values[value + 1]) ELSE seq[k]],
                      b, dtype, values, value + 1)

\* piecewise_constant_decay asking for as many values as boundaries
piecewise_constant_decay_arity(h, boundaries, values) ==
    IF Len(boundaries) # Len(values) THEN Raise(h, "ValueError")
    ELSE LET r == piecewise_loop(np_zeros(n_steps),
                                 np_append_bounds(boundaries),
                                 bounds_dtype(boundaries), values, 0)
         IN  IF r.exc # "" THEN Raise(h, r.exc) ELSE Alloc(h, r.seq)

piecewise_constant_decay(h, boundaries, values) ==
    IF Len(boundaries) + 1 # Len(values) THEN Raise(h, "ValueError")
    ELSE LET r == piecewise_loop(np_zeros(n_steps),
                                 np_append_bounds(boundaries),
                                 bounds_dtype(boundaries), values, 0)
         IN  IF r.exc # "" THEN Raise(h, r.exc) ELSE Alloc(h, r.seq)

PiecewiseConstantDecay(lim, Bnds, Vls) ==
    \E boundaries \in Bnds, values \in Vls :
        Call(lim, "piecewise_constant_decay", <<boundaries, values>>,
             piecewise_constant_decay(heap, boundaries, values))

(* Schedule.constant                                                       *)

\* constant filling self.steps in place and returning it
\* (self.steps.fill(value); return self.steps)
constant_inplace(h, value) ==
    [heap |-> [h EXCEPT ![steps] = np_full(Len(h[steps]), value)],
     ref |-> steps, outcome |-> "ok"]

constant(h, value) == Alloc(h, np_full(Len(h[steps]), value))

Constant(lim, Args) ==
    \E a \in Args : Call(lim, "constant", a, constant(heap, a[1]))

(* Schedule.geometric_decay                                                *)

\* geometric_loop with the exponent of the docstring's formula at index i + 1
RECURSIVE geometric_loop_shifted(_, _, _, _, _)
geometric_loop_shifted(seq, i, initial_value, decay, minimum_value) ==
    IF i >= n_steps - 1 THEN seq
    ELSE geometric_loop_shifted(
             [seq EXCEPT ![i + 2] =
                 V(RMax(RMul(initial_value, RPowInt(decay, i + 1)),
                        minimum_value))],
             i + 1, initial_value, decay, minimum_value)

RECURSIVE geometric_loop(_, _, _, _, _)
geometric_loop(seq, i, initial_value, decay, minimum_value) ==
    IF i >= n_steps - 1 THEN seq
    ELSE geometric_loop(
             [seq EXCEPT ![i + 2] =
                 V(RMax(RMul(initial_value, RPowInt(decay, i)), minimum_value))],
             i + 1, initial_value, decay, minimum_value)

geometric_decay(h, initial_value, decay, minimum_value) ==
    Alloc(h, geometric_loop([np_zeros(n_steps) EXCEPT ![1] = V(initial_value)],
                            0, initial_value, decay, minimum_value))

GeometricDecay(lim, Args) ==
    \E a \in Args :
        Call(lim, "geometric_decay", a, geometric_decay(heap, a[1], a[2], a[3]))

(* Schedule.arithmetic_decay                                               *)

RECURSIVE arithmetic_loop(_, _, _, _, _)
arithmetic_loop(seq, i, initial_value, decay, minimum_value) ==
    IF i >= n_steps - 1 THEN seq
    ELSE arithmetic_loop(
             [seq EXCEPT ![i + 2] =
                 V(RMax(RSub(initial_value, RMul(decay, R(i))), minimum_value))],
             i + 1, initial_value, decay, minimum_value)

arithmetic_decay(h, initial_value, decay, minimum_value) ==
    Alloc(h, arithmetic_loop([np_zeros(n_steps) EXCEPT ![1] = V(initial_value)],
                             0, initial_value, decay, minimum_value))

ArithmeticDecay(lim, Args) ==
    \E a \in Args :
        Call(lim, "arithmetic_decay", a,
             arithmetic_decay(heap, a[1], a[2], a[3]))

(* Schedule.time_decay                                                     *)

RECURSIVE time_loop(_, _, _)
time_loop(seq, i, decay_rate) ==
    IF i >= n_steps - 1 THEN seq
    ELSE time_loop(
             [seq EXCEPT ![i + 2] =
                 V(RDiv(seq[i + 1].re, RAdd(One, RMul(decay_rate, R(i)))))],
             i + 1, decay_rate)

time_decay(h, initial_value, decay_rate) ==
    Alloc(h, time_loop([np_zeros(n_steps) EXCEPT ![1] = V(initial_value)],
                       0, decay_rate))

TimeDecay(lim, Args) ==
    \E a \in Args : Call(lim, "time_decay", a, time_decay(heap, a[1], a[2]))

(* Schedule.step_decay                                                     *)

\* step_loop dividing the loop variable i, not 1 + i
RECURSIVE step_loop_late(_, _, _, _, _)
step_loop_late(seq, i, initial_value, drop, i_drop) ==
    IF i >= n_steps - 1 THEN seq
    ELSE step_loop_late(
             [seq EXCEPT ![i + 2] =
                 VScale(initial_value, VPow(drop, RFloor(Norm(i, i_drop))))],
             i + 1, initial_value, drop, i_drop)

RECURSIVE step_loop(_, _, _, _, _)
step_loop(seq, i, initial_value, drop, i_drop) ==
    IF i >= n_steps - 1 THEN seq
    ELSE step_loop(
             [seq EXCEPT ![i + 2] =
                 VScale(initial_value,
                        VPow(drop, RFloor(Norm(1 + i, i_drop))))],
             i + 1, initial_value, drop, i_drop)

\* (1 + i) / i_drop divides Python numbers: i_drop = 0 raises as soon as the
\* loop body runs
step_decay(h, initial_value, drop, i_drop) ==
    IF i_drop = 0 /\ n_steps - 1 > 0 THEN Raise(h, "ZeroDivisionError")
    ELSE Alloc(h, step_loop([np_zeros(n_steps) EXCEPT ![1] = V(initial_value)],
                            0, initial_value, drop, i_drop))

StepDecay(lim, Args) ==
    \E a \in Args :
        Call(lim, "step_decay", a, step_decay(heap, a[1], a[2], a[3]))

-----------------------------------------------------------------------------
(* Sequences of calls on one instance (Spec), with a few arguments per     *)
(* method.                                                                 *)

ExpArgs == {<<R(2), Half, FALSE>>, <<R(2), Half, TRUE>>}
CosArgs == {<<R(2), Zero>>}
InvArgs == {<<R(2), One, FALSE>>, <<R(2), One, TRUE>>}
PolyArgs == {<<R(4), One, R(2), FALSE>>, <<R(4), One, R(2), TRUE>>}
PwBoundaries == {<<1>>, <<>>}
PwValues == {<<R(1), R(2)>>, <<R(1)>>}
ConstArgs == {<<R(3)>>}
GeoArgs == {<<R(10), Half, R(1)>>}
AriArgs == {<<R(10), R(3), R(1)>>}
TimeArgs == {<<R(10), One>>}
StepArgs == {<<R(1), Half, 2>>, <<R(1), Half, 0>>}

Next ==
    \/ ExponentialDecay(MaxCalls, ExpArgs)
    \/ CosineDecay(MaxCalls, CosArgs)
    \/ InverseTimeDecay(MaxCalls, InvArgs)
    \/ PolynomialDecay(MaxCalls, PolyArgs)
    \/ PiecewiseConstantDecay(MaxCalls, PwBoundaries, PwValues)
    \/ Constant(MaxCalls, ConstArgs)
    \/ GeometricDecay(MaxCalls, GeoArgs)
    \/ ArithmeticDecay(MaxCalls, AriArgs)
    \/ TimeDecay(MaxCalls, TimeArgs)
    \/ StepDecay(MaxCalls, StepArgs)

Spec == Init /\ [][Next]_vars

-----------------------------------------------------------------------------
(* One call with arguments from wider sets (SpecFn).                       *)

SeqsUpTo(S, lo, hi) == UNION {[1..k -> S] : k \in lo..hi}

Scalars == {Zero, Half, One, R(2), R(3), R(10)}
Rates == {Zero, Half, One, R(2)}
WideExpArgs == {R(1), R(2)} \X Rates \X BOOLEAN
WideCosArgs == {R(1), R(2)} \X {Zero, Half, One}
WideInvArgs == {R(1), R(2)} \X Rates \X BOOLEAN
WidePolyArgs == {R(1), R(4)} \X {Zero, One} \X {R(1), R(2)} \X BOOLEAN
WidePwBoundaries == SeqsUpTo((-1)..(n_steps + 1), 0, 2)
WidePwValues == SeqsUpTo({R(1), R(2)}, 1, 3)
WideConstArgs == {<<s>> : s \in Scalars}
WideGeoArgs == {R(1), R(10)} \X {Zero, Half, One, R(2)} \X {Zero, R(1), R(3)}
WideAriArgs == {R(1), R(10)} \X {Zero, One, R(3)} \X {Zero, R(1), R(3)}
WideTimeArgs == {R(1), R(10)} \X Rates
WideStepArgs == {R(1), R(3)} \X {Zero, Half, One, R(2)} \X (0..3)

NextFn ==
    \/ ExponentialDecay(1, WideExpArgs)
    \/ CosineDecay(1, WideCosArgs)
    \/ InverseTimeDecay(1, WideInvArgs)
    \/ PolynomialDecay(1, WidePolyArgs)
    \/ PiecewiseConstantDecay(1, WidePwBoundaries, WidePwValues)
    \/ Constant(1, WideConstArgs)
    \/ GeometricDecay(1, WideGeoArgs)
    \/ ArithmeticDecay(1, WideAriArgs)
    \/ TimeDecay(1, WideTimeArgs)
    \/ StepDecay(1, WideStepArgs)

SpecFn == Init /\ [][NextFn]_vars

-----------------------------------------------------------------------------
(* Reading the history.                                                    *)

\* the sequence a successful call returned, as a tuple of elements
Returned(c) == heap[c.ref]

\* element i (Python index) of the sequence call c returned
Elem(c, i) == heap[c.ref][i + 1]

CallsOf(method) == {k \in 1..Len(calls) : calls[k].method = method}

Ok(k) == calls[k].outcome = "ok"

-----------------------------------------------------------------------------
(* Properties.                                                             *)

Piecewise == "piecewise_constant_decay"

ArityMismatch(c) ==
    c.method = Piecewise /\ Len(c.args[2]) # Len(c.args[1]) + 1

\* C2: a piecewise_constant_decay call whose values list is not exactly one
\* longer than its boundaries list ends in ValueError and returns nothing,
\* and the step that makes the call allocates no array and leaves n_steps,
\* steps and the steps array as they were.
C2_ArityError ==
    /\ [](\A k \in 1..Len(calls) :
            ArityMismatch(calls[k]) =>
                calls[k].outcome = "ValueError" /\ calls[k].ref = 0)
    /\ [][(Len(calls') = Len(calls) + 1 /\ ArityMismatch(calls'[Len(calls')]))
            => (heap' = heap /\ n_steps' = n_steps /\ steps' = steps)]_vars

\* C2 witness: boundaries [2, 4] with values [1, 2] has been rejected.
C2_Witness ==
    \E k \in 1..Len(calls) :
        /\ calls[k].method = Piecewise
        /\ calls[k].args = <<(<<2, 4>>), <<R(1), R(2)>>>>
        /\ calls[k].outcome = "ValueError"

\* boundaries is a non-decreasing list of integers within [0, n_steps]
InRange(boundaries) ==
    /\ \A j \in 1..Len(boundaries) : 0 <= boundaries[j] /\ boundaries[j] <= n_steps
    /\ \A j \in 1..(Len(boundaries) - 1) : boundaries[j] <= boundaries[j + 1]

\* the pieces [b[s], b[s+1]) that hold Python index i
Pieces(boundaries, values, i) ==
    LET b == <<0>> \o boundaries \o <<n_steps>>
    IN  {s \in 1..Len(values) : b[s] <= i /\ i < b[s + 1]}

Partitioned(c) ==
    /\ c.outcome = "ok"
    /\ \A i \in 0..(n_steps - 1) :
          /\ Cardinality(Pieces(c.args[1], c.args[2], i)) = 1
          /\ \A s \in Pieces(c.args[1], c.args[2], i) :
                Elem(c, i) = V(c.args[2][s])

\* C3: piecewise_constant_decay with one more value than boundaries and
\* non-decreasing integer boundaries within [0, n_steps] returns a sequence
\* in which every index lies in exactly one piece and holds that piece's
\* value.
C3_Partition ==
    \A k \in 1..Len(calls) :
        (/\ calls[k].method = Piecewise
         /\ ~ArityMismatch(calls[k])
         /\ InRange(calls[k].args[1])) => Partitioned(calls[k])

\* C3, for at least one boundary: the part of the statement the code meets.
C3_PartitionNonEmpty ==
    \A k \in 1..Len(calls) :
        (/\ calls[k].method = Piecewise
         /\ ~ArityMismatch(calls[k])
         /\ calls[k].args[1] # <<>>
         /\ InRange(calls[k].args[1])) => Partitioned(calls[k])

\* C4: no step changes n_steps, the steps reference or the contents of the
\* steps array, which stays what the constructor made it; calls that raise
\* included; every returned sequence is an object distinct from the steps
\* array and from every sequence returned before.
C4_Frame ==
    /\ [][n_steps' = n_steps /\ steps' = steps /\ heap'[steps'] = heap[steps]]_vars
    /\ [](/\ heap[steps] = linspace(0, n_steps, n_steps)
          /\ \A k \in 1..Len(calls) :
                Ok(k) => /\ calls[k].ref # steps
                         /\ \A j \in 1..(k - 1) : calls[j].ref # calls[k].ref)

\* C4 witness: three calls, the second one raised, the other two returned.
C4_Witness ==
    /\ Len(calls) = 3
    /\ Ok(1) /\ ~Ok(2) /\ Ok(3)
    /\ calls[1].method # calls[3].method

\* C5: two calls of the same method with the same arguments end the same
\* way and, when they return, return element-wise equal sequences, whatever
\* was called before or in between.
C5_Idempotent ==
    \A j \in 1..Len(calls) : \A k \in 1..Len(calls) :
        (calls[j].method = calls[k].method /\ calls[j].args = calls[k].args)
            => /\ calls[j].outcome = calls[k].outcome
               /\ Ok(j) => Returned(calls[j]) = Returned(calls[k])

\* C5 witness: the same call made first and third with another method's
\* call in between, all three returning.
C5_Witness ==
    /\ Len(calls) = 3
    /\ calls[1].method = calls[3].method /\ calls[1].args = calls[3].args
    /\ calls[2].method # calls[1].method
    /\ Ok(1) /\ Ok(2) /\ Ok(3)
    /\ n_steps >= 2

\* C6: steps has n_steps elements; for n_steps > 1 element i is
\* i * n_steps / (n_steps - 1), so the first is 0, the last is n_steps, the
\* array is non-decreasing and within [0, n_steps]; for n_steps = 1 it is [0].
C6_Steps ==
    LET s == heap[steps]
    IN  /\ Len(s) = n_steps
        /\ \A k \in 1..Len(s) : IsRat(s[k])
        /\ n_steps > 1 =>
              /\ \A i \in 0..(n_steps - 1) :
                    s[i + 1].re = Norm(i * n_steps, n_steps - 1)
              /\ s[1].re = Zero
              /\ s[n_steps].re = R(n_steps)
              /\ \A i \in 1..(n_steps - 1) : RLe(s[i].re, s[i + 1].re)
              /\ \A i \in 1..n_steps :
                    RLe(Zero, s[i].re) /\ RLe(s[i].re, R(n_steps))
        /\ n_steps = 1 => s = <<V(Zero)>>

\* C6 witness: an instance of four steps whose steps are 0, 4/3, 8/3, 4.
C6_Witness ==
    /\ n_steps = 4
    /\ self_steps(heap) = <<Zero, <<4, 3>>, <<8, 3>>, R(4)>>

StepFormula(c) ==
    /\ c.outcome = "ok"
    /\ Elem(c, 0) = V(c.args[1])
    /\ \A i \in 1..(n_steps - 1) :
          Elem(c, i) =
              V(RMul(c.args[1], RPowInt(c.args[2], i \div c.args[3])))

\* C8 as stated: for i_drop >= 1, step_decay returns initial_value at index
\* 0 and initial_value * drop^floor(i / i_drop) at every index i >= 1, and
\* the value changes from index i - 1 to index i exactly when i is a
\* multiple of i_drop.
C8_StepChangesExactly ==
    \A k \in CallsOf("step_decay") :
        LET c == calls[k]
        IN  c.args[3] >= 1 =>
                /\ StepFormula(c)
                /\ \A i \in 1..(n_steps - 1) :
                      (Elem(c, i) # Elem(c, i - 1)) <=> (i % c.args[3] = 0)

\* C8 as amended: the same element formula; the value can change from index
\* i - 1 to index i only when i is a multiple of i_drop, and is constant in
\* between.
C8_Step ==
    \A k \in CallsOf("step_decay") :
        LET c == calls[k]
        IN  c.args[3] >= 1 =>
                /\ StepFormula(c)
                /\ \A i \in 1..(n_steps - 1) :
                      (Elem(c, i) # Elem(c, i - 1)) => (i % c.args[3] = 0)

\* C8 witness: step_decay(1, 0.5, 2) on five steps returned
\* [1, 1, 0.5, 0.5, 0.25].
C8_Witness ==
    \E k \in CallsOf("step_decay") :
        /\ n_steps = 5
        /\ calls[k].args = <<R(1), Half, 2>>
        /\ Ok(k)
        /\ Returned(calls[k]) =
               <<V(One), V(One), V(Half), V(Half), V(<<1, 4>>)>>

\* C9: every element of what geometric_decay and arithmetic_decay return,
\* index 0 included, is at least minimum_value.
C9_Floor ==
    \A k \in CallsOf("geometric_decay") \cup CallsOf("arithmetic_decay") :
        /\ Ok(k)
        /\ \A i \in 0..(n_steps - 1) :
              RLe(calls[k].args[3], Elem(calls[k], i).re)

\* C9, from index 1 on: the part of the statement the code meets.
C9_FloorAfterFirst ==
    \A k \in CallsOf("geometric_decay") \cup CallsOf("arithmetic_decay") :
        /\ Ok(k)
        /\ \A i \in 1..(n_steps - 1) :
              RLe(calls[k].args[3], Elem(calls[k], i).re)

\* the non-cycle value (initial - end) * (1 - min(x, n)/n)^power + end
PolyValue(c, x) ==
    VShift(c.args[2],
           VScale(RSub(c.args[1], c.args[2]),
                  VPow(RSub(One, RDiv(RMin(x, R(n_steps)), R(n_steps))),
                       c.args[3])))

\* C10: for n_steps >= 2 and power > 0, polynomial_decay returns
\* initial_value first and end_value last, with cycle or without, and with
\* cycle every element equals the element without cycle.
C10_Polynomial ==
    \A k \in CallsOf("polynomial_decay") :
        LET c == calls[k]
        IN  (n_steps >= 2 /\ RLt(Zero, c.args[3])) =>
                /\ Ok(k)
                /\ Elem(c, 0) = V(c.args[1])
                /\ Elem(c, n_steps - 1) = V(c.args[2])
                /\ c.args[4] =>
                      \A i \in 0..(n_steps - 1) :
                          Elem(c, i) = PolyValue(c, self_steps(heap)[i + 1])

\* C10 without cycle, and with cycle from index 1 on: the part of the
\* statement the code meets.
C10_PolynomialDefined ==
    \A k \in CallsOf("polynomial_decay") :
        LET c == calls[k]
        IN  (n_steps >= 2 /\ RLt(Zero, c.args[3])) =>
                /\ Ok(k)
                /\ ~c.args[4] => Elem(c, 0) = V(c.args[1])
                /\ Elem(c, n_steps - 1) = V(c.args[2])
                /\ \A i \in 1..(n_steps - 1) :
                      Elem(c, i) = PolyValue(c, self_steps(heap)[i + 1])

====
